---- MODULE Spec2Model ----
(***************************************************************************)
(* A model of the STARK tutorial prover and verifier:                      *)
(*   src/stark_prover_verifier/src/prover.py    (STARKProver)              *)
(*   src/stark_prover_verifier/src/verifier.py  (STARKVerifier)            *)
(*   src/stark_prover_verifier/main.py          (the callers)              *)
(*                                                                         *)
(* Python values are tagged records [t, v].  A Python str is a sequence of *)
(* atoms; an atom is a run of literal text or (a prefix of) the hex digest *)
(* of a SHA-256 hash, kept symbolically with the hashed text as payload,   *)
(* so that two digests are equal exactly when the hashed texts are.        *)
(***************************************************************************)
EXTENDS Integers, Sequences, FiniteSets, TLC

VARIABLES
    prover,       \* the STARKProver instance: security_level, proof_data
    verifier,     \* the STARKVerifier instance: security_level, verification_log
    computation,  \* the caller's (result, trace) of the last compute_fibonacci: <<>> or <<c>>
    caller_proof, \* the proof value the caller holds: <<>> or <<p>>
    origin,       \* where the held proof comes from: none, generated, tampered, loaded
    outcome,      \* what the last verify call on the held proof returned: <<>> or <<r>>
    exit,         \* the return path that verify call took
    calls,        \* number of verify calls made on the verifier
    computes,     \* number of compute_fibonacci calls made on the prover
    generated,    \* what generate_proof returned so far: the n and the compute call
                  \* its trace comes from, and the proof without its timestamp
    fri_call      \* the last direct _fri_commit call: <<>> or <<[evaluations, challenge, layers]>>

vars == <<prover, verifier, computation, caller_proof, origin, outcome, exit, calls,
          computes, generated, fri_call>>

---------------------------------------------------------------------------
(* Bounds of the model *)

MaxN == 5             \* compute_fibonacci is called with n in 0..MaxN
MaxVerifyCalls == 2   \* verify calls per behaviour
MaxComputeCalls == 2  \* compute_fibonacci calls per behaviour
MaxEvalLen == 3       \* length of the lists handed to _fri_commit directly
MaxEvalVal == 2       \* values in those lists are 0..MaxEvalVal

(* Program constants *)

HexLen == 64          \* characters of a SHA-256 hexdigest
ChallengeLen == 16    \* hexdigest()[:16]
SampleLen == 10       \* constraint_evals[:10]
FriHead == 5          \* current_evals[:5]
FriLayerCount == 3    \* range(3)

\* The security levels a prover or verifier is constructed with.  The default
\* of the code is 128; small levels keep 2 ** level inside TLC's integers and
\* let fibonacci values reach it.
Levels == {2, 3}

---------------------------------------------------------------------------
(* Python str *)

Chr(c) == [k |-> "txt", c |-> c, h |-> <<>>, n |-> 1]
\* A literal of n characters, at least one of them no hex digit when n > 1.
Tok(c, n) == [k |-> "txt", c |-> c, h |-> <<>>, n |-> n]
Lit(c, n) == <<Tok(c, n)>>

HexChars == {"0", "1", "2", "3", "4", "5", "6", "7", "8", "9",
             "a", "b", "c", "d", "e", "f"}
Digits == <<"0", "1", "2", "3", "4", "5", "6", "7", "8", "9">>

RECURSIVE StrLen(_)
StrLen(s) == IF s = <<>> THEN 0 ELSE Head(s).n + StrLen(Tail(s))

\* c in '0123456789abcdef' for every character c of s
IsHexAtom(a) == a.k = "dig" \/ (a.n = 1 /\ a.c \in HexChars)
AllHex(s) == \A i \in 1..Len(s) : IsHexAtom(s[i])

\* s[:m]
RECURSIVE StrPrefix(_, _)
StrPrefix(s, m) ==
    IF s = <<>> \/ m <= 0 THEN <<>>
    ELSE IF Head(s).n <= m THEN <<Head(s)>> \o StrPrefix(Tail(s), m - Head(s).n)
    ELSE <<[Head(s) EXCEPT !.n = m]>>

\* hashlib.sha256(s.encode()).hexdigest()
Sha256Hex(s) == <<[k |-> "dig", c |-> "sha256", h |-> s, n |-> HexLen]>>

\* str(i) for an int i
RECURSIVE NatStr(_)
NatStr(i) == IF i < 10 THEN <<Chr(Digits[i + 1])>>
             ELSE NatStr(i \div 10) \o <<Chr(Digits[(i % 10) + 1])>>
IntStr(i) == IF i < 0 THEN <<Chr("-")>> \o NatStr(-i) ELSE NatStr(i)

---------------------------------------------------------------------------
(* Python values *)

PyInt(i) == [t |-> "int", v |-> i]
PyStr(s) == [t |-> "str", v |-> s]
PyList(l) == [t |-> "list", v |-> l]
PyFloat(x) == [t |-> "float", v |-> x]
PyNone == [t |-> "none", v |-> 0]

\* str(x)
PyToStr(x) ==
    CASE x.t = "int" -> IntStr(x.v)
      [] x.t = "str" -> x.v
      [] x.t = "none" -> Lit("None", 4)
      [] OTHER -> Lit("<repr>", 6)

\* json.dumps(l) for a list l of str
RECURSIVE JsonStrItems(_)
JsonStrItems(l) ==
    IF l = <<>> THEN <<>>
    ELSE <<Tok("\"", 1)>> \o Head(l) \o <<Tok("\"", 1)>>
         \o (IF Len(l) > 1 THEN <<Tok(", ", 2)>> ELSE <<>>)
         \o JsonStrItems(Tail(l))
JsonStrList(l) == <<Tok("[", 1)>> \o JsonStrItems(l) \o <<Tok("]", 1)>>

---------------------------------------------------------------------------
(* prover.py: compute_fibonacci *)

\* A memo table kept on the prover instance: the one the previous call left.
InitialMemo_kept ==
    IF computation = <<>> THEN <<>>
    ELSE LET steps == computation[1].trace.steps
         IN [num \in {steps[i].input : i \in 1..Len(steps)} |->
                steps[CHOOSE i \in 1..Len(steps) : steps[i].input = num].output]

\* memo = {} : the memo table a compute_fibonacci call starts with
InitialMemo == <<>>
\* trace_steps = []
InitialTraceSteps == <<>>

\* 'step' counted from 1
StepRecord_from1(trace_steps, operation, num, output, depth) ==
    [step |-> Len(trace_steps) + 1, operation |-> operation, input |-> num,
     output |-> output, depth |-> depth]

StepRecord(trace_steps, operation, num, output, depth) ==
    [step |-> Len(trace_steps), operation |-> operation, input |-> num,
     output |-> output, depth |-> depth]

\* A memo hit that returns without recording a trace entry
RECURSIVE fib_with_trace_silent(_, _, _)
fib_with_trace_silent(num, depth, st) ==
    IF num \in DOMAIN st.memo
    THEN [memo |-> st.memo, trace_steps |-> st.trace_steps, ret |-> st.memo[num]]
    ELSE LET left == fib_with_trace_silent(num - 1, depth + 1, st)
             right == fib_with_trace_silent(num - 2, depth + 1, left)
             after == IF num = 0 \/ num = 1 THEN st ELSE right
             result == IF num = 0 THEN 0
                       ELSE IF num = 1 THEN 1
                       ELSE left.ret + right.ret
         IN [memo |-> (num :> result) @@ after.memo,
             trace_steps |-> Append(after.trace_steps,
                 StepRecord(after.trace_steps, "fib_compute", num, result, depth)),
             ret |-> result]

\* The left operand fib_with_trace(num - 1, ...) is evaluated before the right one.
RECURSIVE fib_with_trace(_, _, _)
fib_with_trace(num, depth, st) ==
    IF num \in DOMAIN st.memo
    THEN [memo |-> st.memo,
          trace_steps |-> Append(st.trace_steps,
              StepRecord(st.trace_steps, "memo_lookup", num, st.memo[num], depth)),
          ret |-> st.memo[num]]
    ELSE LET left == fib_with_trace(num - 1, depth + 1, st)
             right == fib_with_trace(num - 2, depth + 1, left)
             after == IF num = 0 \/ num = 1 THEN st ELSE right
             result == IF num = 0 THEN 0
                       ELSE IF num = 1 THEN 1
                       ELSE left.ret + right.ret
         IN [memo |-> (num :> result) @@ after.memo,
             trace_steps |-> Append(after.trace_steps,
                 StepRecord(after.trace_steps, "fib_compute", num, result, depth)),
             ret |-> result]

\* compute_fibonacci(n) for n >= 0: (result, ProofTrace)
compute_fibonacci(n) ==
    LET run == fib_with_trace(n, 0, [memo |-> InitialMemo,
                                     trace_steps |-> InitialTraceSteps])
    IN [result |-> run.ret,
        trace |-> [steps |-> run.trace_steps,
                   inputs |-> [n |-> n],
                   outputs |-> [result |-> run.ret]]]

---------------------------------------------------------------------------
(* prover.py: generate_proof and its helpers.  self is the prover instance. *)

STARKProver(security_level) ==
    [security_level |-> security_level, proof_data |-> <<>>]

JsonStep(s) ==
    Lit("{\"depth\": ", 10) \o IntStr(s.depth)
    \o Lit(", \"input\": ", 11) \o IntStr(s.input)
    \o Lit(", \"operation\": \"", 16) \o Lit(s.operation, 11)
    \o Lit("\", \"output\": ", 13) \o IntStr(s.output)
    \o Lit(", \"step\": ", 10) \o IntStr(s.step)
    \o Lit("}", 1)

RECURSIVE JsonSteps(_)
JsonSteps(steps) ==
    IF steps = <<>> THEN <<>>
    ELSE JsonStep(Head(steps))
         \o (IF Len(steps) > 1 THEN Lit(", ", 2) ELSE <<>>)
         \o JsonSteps(Tail(steps))

\* json.dumps(trace.to_dict(), sort_keys=True)
JsonTrace(trace) ==
    Lit("{\"inputs\": {\"n\": ", 17) \o IntStr(trace.inputs.n)
    \o Lit("}, \"outputs\": {\"result\": ", 25) \o IntStr(trace.outputs.result)
    \o Lit("}, \"steps\": [", 13) \o JsonSteps(trace.steps)
    \o Lit("]}", 2)

_commit_to_trace(self, trace) == Sha256Hex(JsonTrace(trace))

_evaluate_constraints(self, trace) ==
    [i \in 1..Len(trace.steps) |->
        trace.steps[i].output % (2 ^ self.security_level)]

_generate_challenge(self, commitment) ==
    StrPrefix(Sha256Hex(commitment \o IntStr(self.security_level)), ChallengeLen)

\* l[:k]
ListPrefix(l, k) == SubSeq(l, 1, IF Len(l) < k THEN Len(l) ELSE k)
\* l[1::2]: every second element starting at index 1
Stride2_from1(l) == [i \in 1..(Len(l) \div 2) |-> l[2 * i]]

\* l[::2]
Stride2(l) == [i \in 1..((Len(l) + 1) \div 2) |-> l[2 * i - 1]]

FriLayerHash(current_evals, challenge) ==
    Sha256Hex(
        JsonStrList([i \in 1..Len(ListPrefix(current_evals, FriHead)) |->
                        IntStr(current_evals[i])])
        \o challenge)

\* the body of "for layer_idx in range(3)", from layer_idx on
RECURSIVE FriLoop(_, _, _, _)
FriLoop(layer_idx, layers, current_evals, challenge) ==
    IF layer_idx >= FriLayerCount THEN layers
    ELSE FriLoop(layer_idx + 1,
                 Append(layers, FriLayerHash(current_evals, challenge)),
                 IF Len(current_evals) > 1 THEN Stride2(current_evals)
                                           ELSE current_evals,
                 challenge)

\* Folding until one evaluation is left, instead of a fixed number of layers
RECURSIVE FriLoopUntilOne(_, _, _)
FriLoopUntilOne(layers, current_evals, challenge) ==
    IF Len(current_evals) <= 1
    THEN Append(layers, FriLayerHash(current_evals, challenge))
    ELSE FriLoopUntilOne(Append(layers, FriLayerHash(current_evals, challenge)),
                         Stride2(current_evals), challenge)

_fri_commit_until_one(self, evaluations, challenge) ==
    FriLoopUntilOne(<<>>, evaluations, challenge)

_fri_commit(self, evaluations, challenge) ==
    FriLoop(0, <<>>, evaluations, challenge)

\* generate_proof(computation_result, trace), with now the value of time.time()
generate_proof(self, computation_result, trace, now) ==
    LET trace_commitment == _commit_to_trace(self, trace)
        constraint_evals == _evaluate_constraints(self, trace)
        challenge == _generate_challenge(self, trace_commitment)
        fri_layers == _fri_commit(self, constraint_evals, challenge)
    IN [version |-> PyStr(Lit("1.0", 3)),
        computation |-> PyStr(Lit("fibonacci", 9)),
        result |-> PyInt(computation_result),
        trace_commitment |-> PyStr(trace_commitment),
        constraint_evaluations |->
            PyList([i \in 1..Len(ListPrefix(constraint_evals, SampleLen)) |->
                       PyInt(constraint_evals[i])]),
        challenge |-> PyStr(challenge),
        fri_layers |-> PyList([i \in 1..Len(fri_layers) |-> PyStr(fri_layers[i])]),
        timestamp |-> PyFloat(now),
        security_bits |-> PyInt(self.security_level)]

---------------------------------------------------------------------------
(* verifier.py.  self is the verifier instance; a proof is any Python value, *)
(* a dict being PyDict(d) with d a function from its keys to Python values.  *)

PyDict(d) == [t |-> "dict", v |-> d]

STARKVerifier(security_level) ==
    [security_level |-> security_level, verification_log |-> <<>>]

VerificationResult(valid, message, checks_passed, checks_failed) ==
    [valid |-> valid, message |-> message,
     checks_passed |-> checks_passed, checks_failed |-> checks_failed]

\* What a call does: it returns a value or raises an exception.
Return(b) == [raised |-> FALSE, val |-> b, err |-> [kind |-> "none", msg |-> <<>>]]
Raise(kind, msg) == [raised |-> TRUE, val |-> FALSE, err |-> [kind |-> kind, msg |-> msg]]

TypeName(x) ==
    CASE x.t = "int" -> Lit("int", 3)
      [] x.t = "str" -> Lit("str", 3)
      [] x.t = "list" -> Lit("list", 4)
      [] x.t = "float" -> Lit("float", 5)
      [] x.t = "dict" -> Lit("dict", 4)
      [] OTHER -> Lit("NoneType", 8)

\* 'result' left out of the required fields
required_fields_no_result ==
    <<"version", "computation", "trace_commitment",
      "constraint_evaluations", "challenge", "fri_layers", "security_bits">>

required_fields ==
    <<"version", "computation", "result", "trace_commitment",
      "constraint_evaluations", "challenge", "fri_layers", "security_bits">>

\* "field in proof" for a str field: a key test on a dict, a substring or an
\* element test on a str or a list (no str or list of the model holds a field
\* name), a TypeError on anything else.
_check_proof_structure(self, proof) ==
    IF proof.t \in {"str", "list"} THEN Return(FALSE)
    ELSE IF proof.t # "dict"
    THEN Raise("TypeError", Lit("argument of type '", 18) \o TypeName(proof)
                            \o Lit("' is not iterable", 17))
    ELSE IF \E i \in 1..Len(required_fields) : required_fields[i] \notin DOMAIN proof.v
    THEN Return(FALSE)
    ELSE IF proof.v.constraint_evaluations.t # "list" THEN Return(FALSE)
    ELSE IF proof.v.fri_layers.t # "list" THEN Return(FALSE)
    ELSE Return(TRUE)

HexOrder == <<"0", "1", "2", "3", "4", "5", "6", "7", "8", "9",
              "a", "b", "c", "d", "e", "f">>

\* "s in '0123456789abcdef'" for a str s: a substring test
InHexString(s) ==
    \E i \in 1..(Len(HexOrder) + 1) :
        /\ i + Len(s) - 1 <= Len(HexOrder)
        /\ \A j \in 1..Len(s) :
              s[j].k = "txt" /\ s[j].n = 1 /\ s[j].c = HexOrder[i + j - 1]

\* all(c in '0123456789abcdef' for c in l) for a list l: stops at the first
\* False, raises at the first element that is no str
RECURSIVE AllInHexList(_)
AllInHexList(l) ==
    IF l = <<>> THEN Return(TRUE)
    ELSE IF Head(l).t # "str"
    THEN Raise("TypeError", Lit("'in <string>' requires string as left operand, not ", 51)
                            \o TypeName(Head(l)))
    ELSE IF ~InHexString(Head(l).v) THEN Return(FALSE)
    ELSE AllInHexList(Tail(l))

_verify_trace_commitment(self, proof) ==
    LET commitment == proof.v.trace_commitment
    IN IF commitment.t = "str"
       THEN Return(StrLen(commitment.v) = HexLen /\ AllHex(commitment.v))
       ELSE IF commitment.t = "list"
       THEN IF Len(commitment.v) = HexLen THEN AllInHexList(commitment.v)
            ELSE Return(FALSE)
       ELSE Raise("TypeError", Lit("object of type '", 16) \o TypeName(commitment)
                               \o Lit("' has no len()", 14))

\* A range check that also covers proof['result']
_verify_constraints_and_result(self, proof) ==
    LET evaluations == proof.v.constraint_evaluations.v
    IN IF evaluations = <<>> THEN Return(FALSE)
       ELSE IF \E i \in 1..Len(evaluations) :
                  evaluations[i].t # "int" \/ evaluations[i].v < 0
       THEN Return(FALSE)
       ELSE IF \E i \in 1..Len(evaluations) :
                  evaluations[i].v >= 2 ^ self.security_level
       THEN Return(FALSE)
       ELSE Return(proof.v.result.v < 2 ^ self.security_level)

_verify_constraints(self, proof) ==
    LET evaluations == proof.v.constraint_evaluations.v
    IN IF evaluations = <<>> THEN Return(FALSE)
       ELSE IF \E i \in 1..Len(evaluations) :
                  evaluations[i].t # "int" \/ evaluations[i].v < 0
       THEN Return(FALSE)
       ELSE IF \E i \in 1..Len(evaluations) :
                  evaluations[i].v >= 2 ^ self.security_level
       THEN Return(FALSE)
       ELSE Return(TRUE)

_verify_fri_layers(self, proof) ==
    LET fri_layers == proof.v.fri_layers.v
    IN IF fri_layers = <<>> THEN Return(FALSE)
       ELSE IF \E i \in 1..Len(fri_layers) :
                  \/ fri_layers[i].t # "str"
                  \/ StrLen(fri_layers[i].v) # HexLen
                  \/ ~AllHex(fri_layers[i].v)
       THEN Return(FALSE)
       ELSE Return(TRUE)

\* The challenge recomputed with the verifier's own security level
_verify_challenge_own_level(self, proof) ==
    LET challenge == proof.v.challenge
        trace_commitment == proof.v.trace_commitment
        expected_challenge ==
            StrPrefix(Sha256Hex(trace_commitment.v \o IntStr(self.security_level)),
                      ChallengeLen)
    IN IF trace_commitment.t = "str"
       THEN Return(challenge.t = "str" /\ challenge.v = expected_challenge)
       ELSE Raise("TypeError", Lit("can only concatenate list (not \"str\") to list", 45))

_verify_challenge(self, proof) ==
    LET challenge == proof.v.challenge
        trace_commitment == proof.v.trace_commitment
        security_bits == proof.v.security_bits
        expected_challenge ==
            StrPrefix(Sha256Hex(trace_commitment.v \o PyToStr(security_bits)),
                      ChallengeLen)
    IN IF trace_commitment.t = "str"
       THEN Return(challenge.t = "str" /\ challenge.v = expected_challenge)
       ELSE IF trace_commitment.t = "list"
       THEN Raise("TypeError", Lit("can only concatenate list (not \"str\") to list", 45))
       ELSE Raise("TypeError", Lit("unsupported operand type(s) for +: '", 36)
                               \o TypeName(trace_commitment)
                               \o Lit("' and 'str'", 11))

\* proof.get('security_bits', 0) >= self.security_level
SecurityLevelCheck(self, proof) ==
    LET security_bits == proof.v.security_bits
    IN IF security_bits.t \in {"int", "float"}
       THEN Return(security_bits.v >= self.security_level)
       ELSE Raise("TypeError", Lit("'>=' not supported between instances of '", 41)
                               \o TypeName(security_bits)
                               \o Lit("' and 'int'", 11))

---------------------------------------------------------------------------
(* verifier.py: verify *)

\* Checks 2 to 6 of verify, in the order of the code.
CheckCall(k, self, proof) ==
    CASE k = 2 -> _verify_trace_commitment(self, proof)
      [] k = 3 -> _verify_constraints(self, proof)
      [] k = 4 -> _verify_fri_layers(self, proof)
      [] k = 5 -> _verify_challenge(self, proof)
      [] OTHER -> SecurityLevelCheck(self, proof)

\* The entry a check appends to checks_passed when it passes ...
PassText(k, proof) ==
    CASE k = 2 -> Lit("Trace commitment verified", 25)
      [] k = 3 -> Lit("Constraint evaluations verified", 31)
      [] k = 4 -> Lit("FRI proof layers verified", 25)
      [] k = 5 -> Lit("Challenge generation verified", 29)
      [] OTHER -> Lit("Security level adequate (", 25)
                  \o PyToStr(proof.v.security_bits) \o Lit(" bits)", 6)

\* ... and the entry it appends to checks_failed when it fails.
FailText(k, proof) ==
    CASE k = 2 -> Lit("Trace commitment verification failed", 36)
      [] k = 3 -> Lit("Constraint evaluation verification failed", 41)
      [] k = 4 -> Lit("FRI proof layer verification failed", 35)
      [] k = 5 -> Lit("Challenge verification failed", 29)
      [] OTHER -> Lit("Insufficient security level (", 29)
                  \o PyToStr(proof.v.security_bits) \o Lit(" bits)", 6)

\* One "if check: checks_passed.append(..) else: checks_failed.append(..)" of
\* the try block; nothing more of the block runs once an exception is raised.
\* Checks that stop at the first failure
RunCheck_short(st, call, pass_text, fail_text) ==
    IF st.exc # <<>> \/ st.checks_failed # <<>> THEN st
    ELSE IF call.raised THEN [st EXCEPT !.exc = <<call.err>>]
    ELSE IF call.val THEN [st EXCEPT !.checks_passed = Append(@, pass_text)]
    ELSE [st EXCEPT !.checks_failed = Append(@, fail_text)]

RunCheck(st, call, pass_text, fail_text) ==
    IF st.exc # <<>> THEN st
    ELSE IF call.raised THEN [st EXCEPT !.exc = <<call.err>>]
    ELSE IF call.val THEN [st EXCEPT !.checks_passed = Append(@, pass_text)]
    ELSE [st EXCEPT !.checks_failed = Append(@, fail_text)]

RECURSIVE RunChecks(_, _, _, _)
RunChecks(k, st, self, proof) ==
    IF k > 6 THEN st
    ELSE RunChecks(k + 1,
                   RunCheck(st, CheckCall(k, self, proof),
                            PassText(k, proof), FailText(k, proof)),
                   self, proof)

\* "except Exception" catches every exception the checks can raise.
Catches(e) == e.kind \in {"TypeError", "KeyError", "ValueError", "AttributeError"}

\* An except clause that reports the exception alone
ExceptResult_alone(e, checks_passed, checks_failed) ==
    VerificationResult(FALSE, Lit("Verification error: ", 20) \o e.msg,
                       checks_passed,
                       <<Lit("Exception: ", 11) \o e.msg>>)

\* the VerificationResult of the except clause
ExceptResult(e, checks_passed, checks_failed) ==
    VerificationResult(FALSE, Lit("Verification error: ", 20) \o e.msg,
                       checks_passed,
                       <<Lit("Exception: ", 11) \o e.msg>> \o checks_failed)

\* the VerificationResult of a failed structural check
StructureFailure ==
    VerificationResult(FALSE, Lit("Proof structure validation failed", 33),
                       <<>>, <<Lit("Invalid proof structure", 23)>>)

\* the VerificationResult after checks 2 to 6
CompleteResult(checks_passed, checks_failed) ==
    VerificationResult(checks_failed = <<>>,
                       IF checks_failed = <<>> THEN Lit("Proof is VALID", 14)
                                               ELSE Lit("Proof is INVALID", 16),
                       checks_passed, checks_failed)

Handle(self, e, checks_passed, checks_failed) ==
    IF Catches(e)
    THEN [exit |-> "exception",
          ret |-> <<ExceptResult(e, checks_passed, checks_failed)>>,
          log |-> self.verification_log]
    ELSE [exit |-> "uncaught", ret |-> <<>>, log |-> self.verification_log]

\* verify(proof): the path taken, the value returned (<<>> when the exception
\* escapes) and the verification log afterwards.
verify(self, proof) ==
    LET structure == _check_proof_structure(self, proof)
        st == RunChecks(2, [checks_passed |-> <<Lit("Proof structure is valid", 24)>>,
                            checks_failed |-> <<>>, exc |-> <<>>], self, proof)
    IN IF structure.raised THEN Handle(self, structure.err, <<>>, <<>>)
       ELSE IF ~structure.val
       THEN [exit |-> "structure", ret |-> <<StructureFailure>>,
             log |-> self.verification_log]
       ELSE IF st.exc # <<>>
       THEN Handle(self, st.exc[1], st.checks_passed, st.checks_failed)
       ELSE LET verification_result == CompleteResult(st.checks_passed, st.checks_failed)
            IN [exit |-> "complete", ret |-> <<verification_result>>,
                log |-> Append(self.verification_log, verification_result)]

\* get_verification_log()
get_verification_log(self) == self.verification_log

---------------------------------------------------------------------------
(* The values in flight *)

\* time.time()
Clock == {0, 1}

\* The proofs a prover of each security level writes with save_proof, for n
\* in 0..MaxN: proof = generate_proof(*compute_fibonacci(n)).
SavedProofs ==
    {[level |-> s, n |-> n,
      proof |-> PyDict(generate_proof(STARKProver(s), compute_fibonacci(n).result,
                                      compute_fibonacci(n).trace, now))] :
        s \in Levels, n \in 0..MaxN, now \in Clock}

\* Those of the prover instance.
HonestProofs ==
    {f.proof : f \in {g \in SavedProofs : g.level = prover.security_level}}

Without(d, field) == [f \in DOMAIN d \ {field} |-> d[f]]

\* A proof made without any trace: well-shaped digests, the challenge
\* recomputed from them, any result.
ForgedProof(security_bits) ==
    LET commitment == Sha256Hex(Lit("test", 4))
    IN [version |-> PyStr(Lit("1.0", 3)),
        computation |-> PyStr(Lit("fibonacci", 9)),
        result |-> PyInt(55),
        trace_commitment |-> PyStr(commitment),
        constraint_evaluations |-> PyList(<<PyInt(1), PyInt(2), PyInt(3)>>),
        challenge |-> PyStr(StrPrefix(Sha256Hex(commitment \o IntStr(security_bits)),
                                      ChallengeLen)),
        fri_layers |-> PyList(<<PyStr(Sha256Hex(Lit("layer1", 6)))>>),
        timestamp |-> PyInt(1234567890),
        security_bits |-> PyInt(security_bits)]

\* Other values json.load can hand to verify: proofs with a field missing, a
\* field of the wrong type or an ill-shaped value, and values that are no dict.
LoadedProofs ==
    LET good == ForgedProof(3)
    IN {PyDict(good),
        PyDict(ForgedProof(1)),
        PyDict(Without(good, "fri_layers")),
        PyDict(Without(good, "result")),
        PyDict([good EXCEPT !.constraint_evaluations = PyStr(Lit("1, 2", 4))]),
        PyDict([good EXCEPT !.fri_layers = PyNone]),
        PyDict([good EXCEPT !.trace_commitment = PyInt(5)]),
        PyDict([good EXCEPT !.trace_commitment = PyList(<<PyInt(1), PyInt(2)>>)]),
        PyDict([good EXCEPT !.trace_commitment = PyList([i \in 1..HexLen |-> PyInt(0)])]),
        PyDict([good EXCEPT !.trace_commitment =
                                PyList([i \in 1..HexLen |-> PyStr(<<Chr("a")>>)])]),
        PyDict([good EXCEPT !.security_bits = PyStr(<<Chr("3")>>)]),
        PyDict([good EXCEPT !.security_bits = PyNone]),
        PyDict([good EXCEPT !.constraint_evaluations = PyList(<<PyInt(1), PyInt(8)>>),
                            !.security_bits = PyNone]),
        PyDict([good EXCEPT !.trace_commitment = PyStr(Lit("not-a-digest", 12)),
                            !.constraint_evaluations = PyList(<<>>),
                            !.fri_layers = PyList(<<PyStr(<<Chr("a"), Chr("b")>>)>>),
                            !.challenge = PyStr(<<Chr("0")>>),
                            !.security_bits = PyInt(1)]),
        PyDict([good EXCEPT !.constraint_evaluations = PyList(<<PyInt(-1)>>)]),
        PyNone,
        PyList(<<>>)}

\* main.py, demo_command: tampered_proof = proof.copy(); tampered_proof['result'] = r
tampered_proof(p, r) == PyDict(("result" :> PyInt(r)) @@ p.v)

\* A generated proof without its timestamp
Untimed(p) == Without(p, "timestamp")

---------------------------------------------------------------------------
(* The state machine *)

Init ==
    /\ \E s \in Levels : prover = STARKProver(s)
    /\ \E m \in Levels : verifier = STARKVerifier(m)
    /\ computation = <<>>
    /\ caller_proof = <<>>
    /\ origin = "none"
    /\ outcome = <<>>
    /\ exit = "none"
    /\ calls = 0
    /\ computes = 0
    /\ generated = {}
    /\ fri_call = <<>>

\* result, trace = prover.compute_fibonacci(n); n < 0 raises ValueError before
\* anything is computed, and nothing is returned.
ComputeFibonacci(n) ==
    /\ n >= 0
    /\ computes < MaxComputeCalls
    /\ computation' = <<compute_fibonacci(n)>>
    /\ computes' = computes + 1
    /\ UNCHANGED <<prover, verifier, caller_proof, origin, outcome, exit, calls,
                   generated, fri_call>>

\* proof = prover.generate_proof(result, trace)
GenerateProof(now) ==
    /\ computation # <<>>
    /\ LET c == computation[1]
           p == generate_proof(prover, c.result, c.trace, now)
       IN /\ prover' = [prover EXCEPT !.proof_data = p]
          /\ caller_proof' = <<PyDict(p)>>
          /\ generated' = generated \cup
                 {[n |-> c.trace.inputs.n, call |-> computes, proof |-> Untimed(p)]}
    /\ origin' = "generated"
    /\ outcome' = <<>>
    /\ exit' = "none"
    /\ UNCHANGED <<verifier, computation, calls, computes, fri_call>>

\* layers = prover._fri_commit(evaluations, challenge); the method reads and
\* writes nothing of the instance, so one call per behaviour shows them all.
FriCommit(evaluations, challenge) ==
    /\ fri_call = <<>>
    /\ fri_call' = <<[evaluations |-> evaluations, challenge |-> challenge,
                      layers |-> _fri_commit(prover, evaluations, challenge)]>>
    /\ UNCHANGED <<prover, verifier, computation, caller_proof, origin, outcome,
                   exit, calls, computes, generated>>

\* proof = json.load(f): the caller reads a proof file, one the prover saved
\* or any other, once it has verified the proof it holds.
LoadProof(p) ==
    /\ caller_proof = <<>> \/ outcome # <<>>
    /\ caller_proof' = <<p>>
    /\ origin' = IF p \in HonestProofs THEN "generated" ELSE "loaded"
    /\ outcome' = <<>>
    /\ exit' = "none"
    /\ UNCHANGED <<prover, verifier, computation, calls, computes, generated, fri_call>>

\* tampered_proof['result'] = result + 1, on the proof just generated
Tamper ==
    /\ origin = "generated"
    /\ caller_proof' = <<tampered_proof(caller_proof[1], caller_proof[1].v.result.v + 1)>>
    /\ origin' = "tampered"
    /\ outcome' = <<>>
    /\ exit' = "none"
    /\ UNCHANGED <<prover, verifier, computation, calls, computes, generated, fri_call>>

\* result = verifier.verify(proof)
Verify ==
    /\ caller_proof # <<>>
    /\ calls < MaxVerifyCalls
    /\ LET r == verify(verifier, caller_proof[1])
       IN /\ verifier' = [verifier EXCEPT !.verification_log = r.log]
          /\ outcome' = r.ret
          /\ exit' = r.exit
    /\ calls' = calls + 1
    /\ UNCHANGED <<prover, computation, caller_proof, origin, computes, generated,
                   fri_call>>

EvaluationLists ==
    UNION {[1..len -> 0..MaxEvalVal] : len \in 0..MaxEvalLen}

Challenges ==
    {_generate_challenge(prover, Sha256Hex(Lit("test", 4))), <<>>}

\* The verifier side: proofs arrive, are tampered with and verified.
Next ==
    \/ \E p \in HonestProofs \cup LoadedProofs : LoadProof(p)
    \/ Tamper
    \/ Verify

Spec == Init /\ [][Next]_vars

\* The prover side: traces are computed and proofs generated.
NextProver ==
    \/ \E n \in 0..MaxN : ComputeFibonacci(n)
    \/ \E now \in Clock : GenerateProof(now)

SpecProver == Init /\ [][NextProver]_vars

\* The folding committer on its own, on any evaluation list.
NextFri ==
    \E evaluations \in EvaluationLists, challenge \in Challenges :
        FriCommit(evaluations, challenge)

SpecFri == Init /\ [][NextFri]_vars

---------------------------------------------------------------------------
(* Claims about the trace builder and the prover, under SpecProver *)

Entry(s) == <<s.operation, s.input, s.output, s.depth>>

\* The trace as the claim lists it: the second call of each pair one level
\* deeper than the first.
ClaimedTraceOfFive ==
    <<<<"fib_compute", 1, 1, 4>>, <<"fib_compute", 0, 0, 5>>,
      <<"fib_compute", 2, 1, 3>>, <<"memo_lookup", 1, 1, 4>>,
      <<"fib_compute", 3, 2, 2>>, <<"memo_lookup", 2, 1, 3>>,
      <<"fib_compute", 4, 3, 1>>, <<"memo_lookup", 3, 2, 2>>,
      <<"fib_compute", 5, 5, 0>>>>

\* The same entries with both calls of a pair at the same depth.
TraceOfFive ==
    <<<<"fib_compute", 1, 1, 4>>, <<"fib_compute", 0, 0, 4>>,
      <<"fib_compute", 2, 1, 3>>, <<"memo_lookup", 1, 1, 3>>,
      <<"fib_compute", 3, 2, 2>>, <<"memo_lookup", 2, 1, 2>>,
      <<"fib_compute", 4, 3, 1>>, <<"memo_lookup", 3, 2, 1>>,
      <<"fib_compute", 5, 5, 0>>>>

\* C1 as claimed: compute_fibonacci(5) returns 5 and a trace of exactly 9
\* entries whose (operation, input, output, depth) are, in order, (Fresh,1,1,d4),
\* (Fresh,0,0,d5), (Fresh,2,1,d3), (Hit,1,1,d4), (Fresh,3,2,d2), (Hit,2,1,d3),
\* (Fresh,4,3,d1), (Hit,3,2,d2), (Fresh,5,5,d0).
C1_TraceOfFive_Claimed ==
    (computation # <<>> /\ computation[1].trace.inputs.n = 5) =>
        LET c == computation[1]
        IN /\ c.result = 5
           /\ Len(c.trace.steps) = 9
           /\ \A i \in 1..9 : Entry(c.trace.steps[i]) = ClaimedTraceOfFive[i]

\* C1 as amended: compute_fibonacci(5) returns 5 and a trace of exactly 9
\* entries whose (operation, input, output, depth) are, in order, (Fresh,1,1,d4),
\* (Fresh,0,0,d4), (Fresh,2,1,d3), (Hit,1,1,d3), (Fresh,3,2,d2), (Hit,2,1,d2),
\* (Fresh,4,3,d1), (Hit,3,2,d1), (Fresh,5,5,d0).
C1_TraceOfFive ==
    (computation # <<>> /\ computation[1].trace.inputs.n = 5) =>
        LET c == computation[1]
        IN /\ c.result = 5
           /\ Len(c.trace.steps) = 9
           /\ \A i \in 1..9 : Entry(c.trace.steps[i]) = TraceOfFive[i]

C1_Witness ==
    /\ computation # <<>>
    /\ computation[1].trace.inputs.n = 5
    /\ Len(computation[1].trace.steps) = 9

\* C7: for a fixed n and security level, any two proof generations on the
\* prover, whatever calls came before each, give the same trace_commitment,
\* challenge, constraint_evaluations and fri_layers.
C7_Deterministic ==
    \A a \in generated, b \in generated :
        a.n = b.n =>
            /\ a.proof.trace_commitment = b.proof.trace_commitment
            /\ a.proof.challenge = b.proof.challenge
            /\ a.proof.constraint_evaluations = b.proof.constraint_evaluations
            /\ a.proof.fri_layers = b.proof.fri_layers

\* Two generations for the same n, from the traces of two compute_fibonacci calls.
C7_Witness ==
    \E a \in generated, b \in generated : a.n = b.n /\ a.call # b.call

RECURSIVE Fibonacci(_)
Fibonacci(k) == IF k < 2 THEN k ELSE Fibonacci(k - 1) + Fibonacci(k - 2)

\* C9: the trace entries carry step = position (from 0), every output is
\* fibonacci(input), an entry computed from two calls follows the entries of
\* those calls (first num - 1, then num - 2, one level deeper), and the last
\* entry is the fib_compute of n at depth 0 whose output is the returned
\* result, outputs.result and fibonacci(n).
C9_PostOrder ==
    computation # <<>> =>
        LET c == computation[1]
            steps == c.trace.steps
            n == c.trace.inputs.n
        IN /\ \A i \in 1..Len(steps) :
                 /\ steps[i].step = i - 1
                 /\ steps[i].output = Fibonacci(steps[i].input)
                 /\ (steps[i].operation = "fib_compute" /\ steps[i].input >= 2) =>
                       /\ i > 2
                       /\ steps[i - 2].input = steps[i].input - 1
                       /\ steps[i - 2].depth = steps[i].depth + 1
                       /\ steps[i - 1].input = steps[i].input - 2
                       /\ steps[i - 1].depth = steps[i].depth + 1
           /\ steps # <<>>
           /\ steps[Len(steps)].operation = "fib_compute"
           /\ steps[Len(steps)].input = n
           /\ steps[Len(steps)].depth = 0
           /\ steps[Len(steps)].output = c.result
           /\ c.trace.outputs.result = c.result
           /\ c.result = Fibonacci(n)

C9_Witness ==
    /\ computation # <<>>
    /\ computation[1].trace.inputs.n >= 4
    /\ \E i \in 1..Len(computation[1].trace.steps) :
          computation[1].trace.steps[i].operation = "memo_lookup"

---------------------------------------------------------------------------
(* Claims about the folding committer, under SpecFri *)

IsDigest(s) == StrLen(s) = 64 /\ AllHex(s)

\* C6: for an evaluation list of any length, 0 and 1 included, and any
\* challenge, _fri_commit returns exactly 3 layer digests; and every generated
\* proof has exactly 3 fri_layers, whatever n.
C6_ThreeLayers ==
    /\ fri_call # <<>> =>
          /\ Len(fri_call[1].layers) = 3
          /\ \A i \in 1..Len(fri_call[1].layers) : IsDigest(fri_call[1].layers[i])
    /\ \A f \in SavedProofs :
          /\ f.proof.v.fri_layers.t = "list"
          /\ Len(f.proof.v.fri_layers.v) = 3

\* _fri_commit has returned for the empty list.
C6_Witness ==
    /\ fri_call # <<>>
    /\ fri_call[1].evaluations = <<>>
    /\ Len(fri_call[1].layers) = 3

---------------------------------------------------------------------------
(* Claims about the verifier, under Spec *)

Held == caller_proof[1]

Verdict(ret) ==
    IF ret = <<>> THEN <<>>
    ELSE <<ret[1].valid, ret[1].checks_passed, ret[1].checks_failed>>

\* The values result is replaced by
ResultValues == {-1, 0, 7, 99}

\* C2: for every proof P that carries a result and every integer r, verify(P
\* with result replaced by r) returns the same valid flag, checks_passed and
\* checks_failed as verify(P).
C2_ResultIgnored ==
    (caller_proof # <<>> /\ Held.t = "dict" /\ "result" \in DOMAIN Held.v) =>
        \A r \in ResultValues :
            Verdict(verify(verifier, tampered_proof(Held, r)).ret)
                = Verdict(verify(verifier, Held).ret)

\* A proof generated for one result, then given another, has been verified as valid.
C2_Witness ==
    /\ origin = "tampered"
    /\ outcome # <<>>
    /\ outcome[1].valid

FieldNames ==
    {"version", "computation", "result", "trace_commitment",
     "constraint_evaluations", "challenge", "fri_layers", "security_bits"}

WellStructured(p) ==
    /\ p.t = "dict"
    /\ FieldNames \subseteq DOMAIN p.v
    /\ p.v.constraint_evaluations.t = "list"
    /\ p.v.fri_layers.t = "list"

\* The entries checks from..to leave in checks_passed (want = TRUE) or in
\* checks_failed (want = FALSE) when check k passes exactly if b[k].
RECURSIVE Entries(_, _, _, _, _)
Entries(from, to, b, want, p) ==
    IF from > to THEN <<>>
    ELSE (IF b[from] = want
          THEN <<IF want THEN PassText(from, p) ELSE FailText(from, p)>>
          ELSE <<>>)
         \o Entries(from + 1, to, b, want, p)

\* C3: for a proof that passes the structural check and raises no exception
\* (its trace_commitment is a str and its security_bits a number), verify
\* records exactly one entry per check 2-6, in check order, after the
\* structural pass entry; valid is true exactly when checks_failed is empty,
\* and the message is "Proof is VALID" or "Proof is INVALID" accordingly.
C3_AllChecksRun ==
    (outcome # <<>> /\ WellStructured(Held)
        /\ Held.v.trace_commitment.t = "str"
        /\ Held.v.security_bits.t \in {"int", "float"}) =>
        LET r == outcome[1]
        IN /\ exit = "complete"
           /\ \E b \in [2..6 -> BOOLEAN] :
                 /\ r.checks_passed = <<Lit("Proof structure is valid", 24)>>
                                         \o Entries(2, 6, b, TRUE, Held)
                 /\ r.checks_failed = Entries(2, 6, b, FALSE, Held)
           /\ r.valid = (r.checks_failed = <<>>)
           /\ r.message = IF r.valid THEN Lit("Proof is VALID", 14)
                                     ELSE Lit("Proof is INVALID", 16)

\* A check has failed and a later one has passed.
C3_Witness ==
    /\ outcome # <<>>
    /\ exit = "complete"
    /\ outcome[1].checks_failed
          = <<Lit("Constraint evaluation verification failed", 41)>>
    /\ Len(outcome[1].checks_passed) = 5

\* C4: for a proof dict that lacks a required field, or whose
\* constraint_evaluations or fri_layers is no list, verify returns valid=false
\* with message "Proof structure validation failed", the structural failure
\* as the only entry of checks_failed, and checks_passed empty.
C4_StructuralRejection ==
    (outcome # <<>> /\ Held.t = "dict" /\ ~WellStructured(Held)) =>
        /\ exit = "structure"
        /\ outcome[1].valid = FALSE
        /\ outcome[1].message = Lit("Proof structure validation failed", 33)
        /\ outcome[1].checks_failed = <<Lit("Invalid proof structure", 23)>>
        /\ outcome[1].checks_passed = <<>>

C4_Witness ==
    /\ outcome # <<>>
    /\ Held.t = "dict"
    /\ "fri_layers" \notin DOMAIN Held.v
    /\ exit = "structure"

\* C5: a proof produced by generate_proof(compute_fibonacci(n)) passes the
\* challenge recomputation check of a verifier of every security level.
C5_ChallengeRoundTrip ==
    (caller_proof # <<>> /\ origin = "generated") =>
        /\ \A m \in Levels :
              LET r == verify(STARKVerifier(m), Held)
              IN /\ r.exit = "complete"
                 /\ \E i \in 1..Len(r.ret[1].checks_passed) :
                       r.ret[1].checks_passed[i]
                           = Lit("Challenge generation verified", 29)
        /\ outcome # <<>> =>
              \E i \in 1..Len(outcome[1].checks_passed) :
                  outcome[1].checks_passed[i] = Lit("Challenge generation verified", 29)

\* A generated proof has been verified by a verifier of another security level.
C5_Witness ==
    /\ origin = "generated"
    /\ outcome # <<>>
    /\ prover.security_level # verifier.security_level
    /\ \E i \in 1..Len(outcome[1].checks_passed) :
          outcome[1].checks_passed[i] = Lit("Challenge generation verified", 29)

\* The first of the checks from..6 that raises, 0 when none does
RECURSIVE FirstRaise(_, _, _)
FirstRaise(from, self, p) ==
    IF from > 6 THEN 0
    ELSE IF CheckCall(from, self, p).raised THEN from
    ELSE FirstRaise(from + 1, self, p)

Outcomes(to, self, p) == [k \in 2..to |-> CheckCall(k, self, p).val]

\* C8: verify returns a VerificationResult for every proof value, no exception
\* escapes; and when a check raises, the result has valid=false and
\* checks_failed is the exception description followed by the failures
\* recorded before the exception.
C8_ExceptionIsAResult ==
    /\ exit # "uncaught"
    /\ exit # "none" =>
          /\ outcome # <<>>
          /\ DOMAIN outcome[1] = {"valid", "message", "checks_passed", "checks_failed"}
          /\ outcome[1].valid \in BOOLEAN
    /\ (outcome # <<>> /\ WellStructured(Held) /\ FirstRaise(2, verifier, Held) # 0) =>
          LET k == FirstRaise(2, verifier, Held)
              description == CheckCall(k, verifier, Held).err.msg
          IN /\ outcome[1].valid = FALSE
             /\ outcome[1].checks_failed =
                   <<Lit("Exception: ", 11) \o description>>
                   \o Entries(2, k - 1, Outcomes(k - 1, verifier, Held), FALSE, Held)
    /\ (outcome # <<>> /\ Held.t \notin {"dict", "str", "list"}) =>
          /\ outcome[1].valid = FALSE
          /\ Len(outcome[1].checks_failed) = 1

\* An exception was raised after a check had failed.
C8_Witness ==
    /\ exit = "exception"
    /\ outcome # <<>>
    /\ Len(outcome[1].checks_failed) = 3

\* C10: after any sequence of verify calls the verification log holds, in
\* call order, the result of every call, the last entry being the result of
\* the last call.
C10_LogHoldsEveryResult ==
    /\ Len(get_verification_log(verifier)) = calls
    /\ outcome # <<>> =>
          /\ get_verification_log(verifier) # <<>>
          /\ get_verification_log(verifier)[calls] = outcome[1]

---------------------------------------------------------------------------
(* More claims about the folding committer, under SpecFri *)

\* The elements of E at the indices 0, 2^i, 2 * 2^i, ... below len(E)
EveryNth(E, i) ==
    [k \in 1..((Len(E) + (2 ^ i) - 1) \div (2 ^ i)) |-> E[(k - 1) * (2 ^ i) + 1]]

\* The hash of the serialization of the first up to 5 of those elements,
\* followed by the challenge
LayerDigest(E, challenge, i) ==
    LET folded == EveryNth(E, i)
        head == [k \in 1..(IF Len(folded) < 5 THEN Len(folded) ELSE 5) |->
                    IntStr(folded[k])]
    IN Sha256Hex(JsonStrList(head) \o challenge)

\* C11: for every evaluation list E and each layer i in {0, 1, 2}, the i-th
\* digest of _fri_commit is the hash of the serialization of the first up to 5
\* elements of E folded i times with stride 2, followed by the challenge, the
\* folded list being the elements of E at indices 0, 2^i, 2 * 2^i, ...; a list
\* of length <= 1 is left unchanged by folding, so its three digests are the
\* same.  This holds of direct calls and of the layers of generated proofs.
C11_LayerDigests ==
    /\ fri_call # <<>> =>
          LET c == fri_call[1]
          IN /\ Len(c.layers) = 3
             /\ \A i \in 0..2 :
                   c.layers[i + 1] = LayerDigest(c.evaluations, c.challenge, i)
             /\ Len(c.evaluations) <= 1 =>
                   c.layers[1] = c.layers[2] /\ c.layers[2] = c.layers[3]
    /\ \A f \in SavedProofs :
          LET evaluations ==
                  _evaluate_constraints(STARKProver(f.level),
                                        compute_fibonacci(f.n).trace)
          IN \A i \in 0..2 :
                f.proof.v.fri_layers.v[i + 1].v
                    = LayerDigest(evaluations, f.proof.v.challenge.v, i)

\* _fri_commit has folded a list of three evaluations whose digests all differ.
C11_Witness ==
    /\ fri_call # <<>>
    /\ Len(fri_call[1].evaluations) = 3
    /\ fri_call[1].layers[1] # fri_call[1].layers[2]
    /\ fri_call[1].layers[2] # fri_call[1].layers[3]

---------------------------------------------------------------------------
(* Completeness, under Spec *)

\* C12: a proof generated by a prover of security level s, for any n, is
\* reported valid by a verifier whose minimum m is at most s.
C12_Completeness ==
    (caller_proof # <<>> /\ origin = "generated" /\ outcome # <<>>
        /\ prover.security_level >= verifier.security_level) =>
        /\ exit = "complete"
        /\ outcome[1].valid
        /\ outcome[1].checks_failed = <<>>

====
